---- MODULE Spec2Model ----
EXTENDS Integers, Sequences, FiniteSets, TLC

(***************************************************************************)
(* Lambda_b -> Lambda l+ l- : flavio/physics/bdecays/lambdablambdall.py     *)
(*                                                                         *)
(* Arithmetic.  The program computes in binary floating point: every       *)
(* +, -, *, /, sqrt rounds its exact result to the nearest representable   *)
(* number (ties to even).  The model keeps that behaviour with a mantissa  *)
(* of Precision bits instead of 53, and an unbounded exponent (no overflow *)
(* or underflow).  A number is m * 2^e, m = 0 or 2^(Precision-1) <= |m| <  *)
(* 2^Precision, so equal numbers are equal records; -0.0 is 0.             *)
(***************************************************************************)
Precision == 6

IAbs(n) == IF n < 0 THEN -n ELSE n
ISign(n) == IF n < 0 THEN -1 ELSE IF n = 0 THEN 0 ELSE 1

RECURSIVE BitLen(_)
BitLen(n) == IF n = 0 THEN 0 ELSE 1 + BitLen(n \div 2)

\* floor of the square root of n >= 0, one binary digit at a time
RECURSIVE ISqrtBits(_, _, _)
ISqrtBits(n, r, bit) ==
    IF bit = 0 THEN r
    ELSE IF (r + bit) * (r + bit) <= n THEN ISqrtBits(n, r + bit, bit \div 2)
    ELSE ISqrtBits(n, r, bit \div 2)
ISqrt(n) == ISqrtBits(n, 0, 2 ^ (BitLen(n) \div 2))

FZero == [m |-> 0, e |-> 0]

\* the element of a one-element set: The({e : v \in {x}}) is e with v bound to
\* the value of x
The(S) == CHOOSE r \in S : TRUE

\* 1 when the quotient q with remainder r (of 2 * half) rounds up
RoundUp(q, r, half, sticky) ==
    IF r > half \/ (r = half /\ (sticky \/ q % 2 = 1)) THEN 1 ELSE 0

\* sgn * n * 2^e (n >= 0, plus a nonzero remainder below n's last bit when
\* sticky) rounded to nearest, ties to even
Round(sgn, n, e, sticky) ==
    IF n = 0 THEN FZero
    ELSE The({IF sh <= 0
              THEN [m |-> sgn * n * 2 ^ (-sh), e |-> e + sh]
              ELSE The({IF q1 = 2 ^ Precision
                        THEN [m |-> sgn * 2 ^ (Precision - 1), e |-> e + sh + 1]
                        ELSE [m |-> sgn * q1, e |-> e + sh]
                        : q1 \in {(n \div 2 ^ sh)
                                  + RoundUp(n \div 2 ^ sh, n % 2 ^ sh, 2 ^ (sh - 1), sticky)}})
              : sh \in {BitLen(n) - Precision}})

\* the float nearest to the integer n, and to n/d
Num(n) == Round(ISign(n), IAbs(n), 0, FALSE)
RNeg(x) == The({[m |-> -v.m, e |-> v.e] : v \in {x}})
RIsZero(x) == x.m = 0
RSign(x) == ISign(x.m)

\* the exact sum v + w as an integer multiple of 2^e
SumAt(v, w, e) == v.m * 2 ^ (v.e - e) + w.m * 2 ^ (w.e - e)
RAdd(x, y) ==
    The({IF v.m = 0 THEN w
         ELSE IF w.m = 0 THEN v
         ELSE IF v.e - w.e > Precision + 2 THEN v      \* w is below half an ulp of v
         ELSE IF w.e - v.e > Precision + 2 THEN w
         ELSE The({Round(ISign(n), IAbs(n), IF v.e < w.e THEN v.e ELSE w.e, FALSE)
                   : n \in {SumAt(v, w, IF v.e < w.e THEN v.e ELSE w.e)}})
         : v \in {x}, w \in {y}})
RSub(x, y) == RAdd(x, RNeg(y))
RMul(x, y) ==
    The({Round(ISign(v.m) * ISign(w.m), IAbs(v.m) * IAbs(w.m), v.e + w.e, FALSE)
         : v \in {x}, w \in {y}})
\* y # 0
RDiv(x, y) ==
    The({Round(ISign(v.m) * ISign(w.m), (IAbs(v.m) * 2 ^ (Precision + 2)) \div IAbs(w.m),
               v.e - w.e - (Precision + 2), (IAbs(v.m) * 2 ^ (Precision + 2)) % IAbs(w.m) # 0)
         : v \in {x}, w \in {y}})
Rat(n, d) == RDiv(Num(n), Num(d))
\* math.sqrt, x >= 0: the mantissa is shifted to an even exponent first
SqrtShift(v) == IF v.e % 2 = 0 THEN Precision + 2 ELSE Precision + 3
sqrt(x) ==
    The({The({Round(1, r, (v.e - SqrtShift(v)) \div 2, r * r # v.m * 2 ^ SqrtShift(v))
              : r \in {ISqrt(v.m * 2 ^ SqrtShift(v))}})
         : v \in {x}})
RLess(x, y) == RSign(RSub(x, y)) < 0
RGeq(x, y) == ~RLess(x, y)

\* complex numbers
Cx(re, im) == [re |-> re, im |-> im]
CReal(x) == Cx(x, Num(0))
CInt(m, n) == Cx(Num(m), Num(n))
CAdd(z, w) == The({Cx(RAdd(u.re, v.re), RAdd(u.im, v.im)) : u \in {z}, v \in {w}})
CSub(z, w) == The({Cx(RSub(u.re, v.re), RSub(u.im, v.im)) : u \in {z}, v \in {w}})
CNeg(z) == The({Cx(RNeg(u.re), RNeg(u.im)) : u \in {z}})
CMul(z, w) ==
    The({Cx(RSub(RMul(u.re, v.re), RMul(u.im, v.im)),
            RAdd(RMul(u.re, v.im), RMul(u.im, v.re))) : u \in {z}, v \in {w}})
\* a real times a complex, a complex over a real
CScale(x, z) == The({Cx(RMul(r, u.re), RMul(r, u.im)) : r \in {x}, u \in {z}})
CDivR(z, x) == The({Cx(RDiv(u.re, r), RDiv(u.im, r)) : u \in {z}, r \in {x}})
conj(z) == The({Cx(u.re, RNeg(u.im)) : u \in {z}})
\* abs(z)**2: the modulus sqrt(re^2 + im^2), then its square
AbsSq(z) ==
    The({RMul(h, h) : h \in {The({sqrt(RAdd(RMul(u.re, u.re), RMul(u.im, u.im))) : u \in {z}})}})
CIsZero(z) == The({RIsZero(u.re) /\ RIsZero(u.im) : u \in {z}})

(***************************************************************************)
(* Stage 1: helicity amplitudes (real), lines 10-33.                       *)
(***************************************************************************)
FFKeys == {"fV0", "fVperp", "fA0", "fAperp", "fT0", "fTperp", "fT50", "fT5perp"}
HKeys == {"0V++", "+V-+", "0A++", "+A-+", "0T++", "+T-+", "0T5++", "+T5-+",
          "0V--", "+V+-", "0A--", "+A+-", "0T--", "+T+-", "0T5--", "+T5+-"}

sp_of(q2, mLb, mL) == RSub(RMul(RAdd(mLb, mL), RAdd(mLb, mL)), q2)
sm_of(q2, mLb, mL) == RSub(RMul(RSub(mLb, mL), RSub(mLb, mL)), q2)

\* the exception helicity_amps raises on (q2, mLb, mL), "none" when it returns:
\* line 17 evaluates sqrt(q2), the division by it, then sqrt(sm); line 19 sqrt(sp)
helicity_amps_raises(q2, mLb, mL) ==
    IF RSign(q2) < 0 THEN "ValueError"
    ELSE IF RSign(q2) = 0 THEN "ZeroDivisionError"
    ELSE IF RSign(sm_of(q2, mLb, mL)) < 0 THEN "ValueError"
    ELSE IF RSign(sp_of(q2, mLb, mL)) < 0 THEN "ValueError"
    ELSE "none"

\* lines 14-24: the eight independent entries
helicity_independent(q2, mLb, mL, ff) ==
    LET sp == sp_of(q2, mLb, mL)
        sm == sm_of(q2, mLb, mL)
        two == Num(2)
    IN  ("0V++" :> RMul(RDiv(RMul(ff["fV0"], RAdd(mLb, mL)), sqrt(q2)), sqrt(sm)))
     @@ ("+V-+" :> RMul(RNeg(ff["fVperp"]), sqrt(RMul(two, sm))))
     @@ ("0A++" :> RMul(RDiv(RMul(ff["fA0"], RSub(mLb, mL)), sqrt(q2)), sqrt(sp)))
     @@ ("+A-+" :> RMul(RNeg(ff["fAperp"]), sqrt(RMul(two, sp))))
     @@ ("0T++" :> RMul(RMul(RNeg(ff["fT0"]), sqrt(q2)), sqrt(sm)))
     @@ ("+T-+" :> RMul(RMul(ff["fTperp"], RAdd(mLb, mL)), sqrt(RMul(two, sm))))
     @@ ("0T5++" :> RMul(RMul(ff["fT50"], sqrt(q2)), sqrt(sp)))
     @@ ("+T5-+" :> RMul(RMul(RNeg(ff["fT5perp"]), RSub(mLb, mL)), sqrt(RMul(two, sp))))

\* a slip in the sign map: the axial entry copied instead of negated
helicity_flipped_axial_copied(H0) ==
    The({H @@ ("0V--" :> H["0V++"]) @@ ("+V+-" :> H["+V-+"])
           @@ ("0A--" :> H["0A++"]) @@ ("+A+-" :> RNeg(H["+A-+"]))
           @@ ("0T--" :> H["0T++"]) @@ ("+T+-" :> H["+T-+"])
           @@ ("0T5--" :> RNeg(H["0T5++"])) @@ ("+T5+-" :> RNeg(H["+T5-+"]))
         : H \in {H0}})

\* lines 25-32: the helicity-flipped entries, derived from the others
helicity_flipped(H0) ==
    The({H @@ ("0V--" :> H["0V++"]) @@ ("+V+-" :> H["+V-+"])
           @@ ("0A--" :> RNeg(H["0A++"])) @@ ("+A+-" :> RNeg(H["+A-+"]))
           @@ ("0T--" :> H["0T++"]) @@ ("+T+-" :> H["+T-+"])
           @@ ("0T5--" :> RNeg(H["0T5++"])) @@ ("+T5+-" :> RNeg(H["+T5-+"]))
         : H \in {H0}})

helicity_amps(q2, mLb, mL, ff) == helicity_flipped(helicity_independent(q2, mLb, mL, ff))

(***************************************************************************)
(* Stage 2: transversity amplitudes (complex), lines 35-60.                *)
(***************************************************************************)
WcKeys == {"v", "a", "vp", "ap", "7", "7p"}
TaKeys == {"perp1", "para1", "perp0", "para0"} \X {"L", "R"}

\* C * ha[hv] - 2*mqh*(wc7 + wc7p)/q2 * ha[ht]   (lines 44-47, 52-55)
perp_term(C, hv, ht, ha, q2, mqh, wc) ==
    CSub(CScale(ha[hv], C),
         CScale(ha[ht], CDivR(CScale(RMul(Num(2), mqh), CAdd(wc["7"], wc["7p"])), q2)))
\* C * ha[ha_] + 2*mqh*(wc7 - wc7p)/q2 * ha[ht5]  (lines 48-51, 56-59)
para_term(C, hax, ht5, ha, q2, mqh, wc) ==
    CAdd(CScale(ha[hax], C),
         CScale(ha[ht5], CDivR(CScale(RMul(Num(2), mqh), CSub(wc["7"], wc["7p"])), q2)))

\* lines 39-42
C910Lpl(wc) == CAdd(CSub(wc["v"], wc["a"]), CSub(wc["vp"], wc["ap"]))
\* a slip: the minus combination used for the right-handed perp channel
C910Rpl_minus(wc) == CSub(CAdd(wc["v"], wc["a"]), CAdd(wc["vp"], wc["ap"]))
C910Rpl(wc) == CAdd(CAdd(wc["v"], wc["a"]), CAdd(wc["vp"], wc["ap"]))
C910Lmi(wc) == CSub(CSub(wc["v"], wc["a"]), CSub(wc["vp"], wc["ap"]))
C910Rmi(wc) == CSub(CAdd(wc["v"], wc["a"]), CAdd(wc["vp"], wc["ap"]))

transverity_amps(ha, q2, mLb, mL, mqh, mql, wc, prefactor) ==
    LET r2 == sqrt(Num(2))
        A0 == (<<"perp1", "L">> :> CScale(r2, perp_term(C910Lpl(wc), "+V-+", "+T-+", ha, q2, mqh, wc)))
          @@ (<<"perp1", "R">> :> CScale(r2, perp_term(C910Rpl(wc), "+V-+", "+T-+", ha, q2, mqh, wc)))
          @@ (<<"para1", "L">> :> CScale(RNeg(r2), para_term(C910Lmi(wc), "+A-+", "+T5-+", ha, q2, mqh, wc)))
          @@ (<<"para1", "R">> :> CScale(RNeg(r2), para_term(C910Rmi(wc), "+A-+", "+T5-+", ha, q2, mqh, wc)))
          @@ (<<"perp0", "L">> :> CScale(r2, perp_term(C910Lpl(wc), "0V++", "0T++", ha, q2, mqh, wc)))
          @@ (<<"perp0", "R">> :> CScale(r2, perp_term(C910Rpl(wc), "0V++", "0T++", ha, q2, mqh, wc)))
          @@ (<<"para0", "L">> :> CScale(RNeg(r2), para_term(C910Lmi(wc), "0A++", "0T5++", ha, q2, mqh, wc)))
          @@ (<<"para0", "R">> :> CScale(RNeg(r2), para_term(C910Rmi(wc), "0A++", "0T5++", ha, q2, mqh, wc)))
    IN  The({[k \in DOMAIN A |-> CMul(N, A[k])] : A \in {A0}, N \in {prefactor}})

(***************************************************************************)
(* Stage 3: angular coefficients (real), lines 62-100.                     *)
(***************************************************************************)
\* ta[x] * ta[y].conj(), and left-to-right sums
XC(ta, x, y) == CMul(ta[x], conj(ta[y]))
Sum4(a, b, c, d) == RAdd(RAdd(RAdd(a, b), c), d)
CSum4(a, b, c, d) == CAdd(CAdd(CAdd(a, b), c), d)

p1R == <<"perp1", "R">>
p1L == <<"perp1", "L">>
a1R == <<"para1", "R">>
a1L == <<"para1", "L">>
p0R == <<"perp0", "R">>
p0L == <<"perp0", "L">>
a0R == <<"para0", "R">>
a0L == <<"para0", "L">>

\* a slip: one squared magnitude subtracted instead of added
K_1ss_minus(ta) ==
    RMul(Rat(1, 4),
         RSub(RAdd(RAdd(RAdd(Sum4(AbsSq(ta[p1R]), AbsSq(ta[p1L]), AbsSq(ta[a1R]), AbsSq(ta[a1L])),
                             RMul(Num(2), AbsSq(ta[p0R]))), RMul(Num(2), AbsSq(ta[p0L]))),
                   RMul(Num(2), AbsSq(ta[a0R]))), RMul(Num(2), AbsSq(ta[a0L]))))
\* lines 68-71
K_1ss(ta) ==
    RMul(Rat(1, 4),
         RAdd(RAdd(RAdd(RAdd(Sum4(AbsSq(ta[p1R]), AbsSq(ta[p1L]), AbsSq(ta[a1R]), AbsSq(ta[a1L])),
                             RMul(Num(2), AbsSq(ta[p0R]))), RMul(Num(2), AbsSq(ta[p0L]))),
                   RMul(Num(2), AbsSq(ta[a0R]))), RMul(Num(2), AbsSq(ta[a0L]))))
\* lines 72-73
K_1cc(ta) ==
    RMul(Rat(1, 2), Sum4(AbsSq(ta[p1R]), AbsSq(ta[p1L]), AbsSq(ta[a1R]), AbsSq(ta[a1L])))
\* lines 74-75
K_1c(ta) == RNeg(CSub(XC(ta, p1R, a1R), XC(ta, p1L, a1L)).re)
\* lines 76-79
K_2ss(ta, alpha) ==
    RMul(RDiv(alpha, Num(2)),
         CSum4(XC(ta, p1R, a1R), CMul(CScale(Num(2), ta[p0R]), conj(ta[a0R])),
               XC(ta, p1L, a1L), CMul(CScale(Num(2), ta[p0L]), conj(ta[a0L]))).re)
\* a slip: the factor alpha left out
K_2cc_no_alpha(ta, alpha) == CAdd(XC(ta, p1R, a1R), XC(ta, p1L, a1L)).re
\* lines 80-81
K_2cc(ta, alpha) == RMul(alpha, CAdd(XC(ta, p1R, a1R), XC(ta, p1L, a1L)).re)
\* lines 82-83
K_2c(ta, alpha) ==
    RMul(RDiv(RNeg(alpha), Num(2)),
         RSub(RAdd(RSub(AbsSq(ta[p1R]), AbsSq(ta[p1L])), AbsSq(ta[a1R])), AbsSq(ta[a1L])))
\* lines 84-87
K_3sc(ta, alpha) ==
    RMul(RDiv(alpha, sqrt(Num(2))),
         CSub(CAdd(CSub(XC(ta, p1R, p0R), XC(ta, a1R, a0R)), XC(ta, p1L, p0L)), XC(ta, a1L, a0L)).im)
\* lines 88-91
K_3s(ta, alpha) ==
    RMul(RDiv(alpha, sqrt(Num(2))),
         CAdd(CSub(CSub(XC(ta, p1R, a0R), XC(ta, a1R, p0R)), XC(ta, p1L, a0L)), XC(ta, a1L, p0L)).im)
\* lines 92-95
K_4sc(ta, alpha) ==
    RMul(RDiv(alpha, sqrt(Num(2))),
         CSub(CAdd(CSub(XC(ta, p1R, a0R), XC(ta, a1R, p0R)), XC(ta, p1L, a0L)), XC(ta, a1L, p0L)).im)
\* lines 96-99
K_4s(ta, alpha) ==
    RMul(RDiv(alpha, sqrt(Num(2))),
         CAdd(CSub(CSub(XC(ta, p1R, p0R), XC(ta, a1R, a0R)), XC(ta, p1L, p0L)), XC(ta, a1L, a0L)).im)

\* a slip: the last entry is never stored
angular_coefficients_short(ta, alpha) ==
       ("1ss" :> K_1ss(ta)) @@ ("1cc" :> K_1cc(ta)) @@ ("1c" :> K_1c(ta))
    @@ ("2ss" :> K_2ss(ta, alpha)) @@ ("2cc" :> K_2cc(ta, alpha)) @@ ("2c" :> K_2c(ta, alpha))
    @@ ("3sc" :> K_3sc(ta, alpha)) @@ ("3s" :> K_3s(ta, alpha))
    @@ ("4sc" :> K_4sc(ta, alpha))
\* lines 62-100: the dictionary K
angular_coefficients(ta, alpha) ==
       ("1ss" :> K_1ss(ta)) @@ ("1cc" :> K_1cc(ta)) @@ ("1c" :> K_1c(ta))
    @@ ("2ss" :> K_2ss(ta, alpha)) @@ ("2cc" :> K_2cc(ta, alpha)) @@ ("2c" :> K_2c(ta, alpha))
    @@ ("3sc" :> K_3sc(ta, alpha)) @@ ("3s" :> K_3s(ta, alpha))
    @@ ("4sc" :> K_4sc(ta, alpha)) @@ ("4s" :> K_4s(ta, alpha))

\* lines 134-135
dGdq2(K0) == The({RAdd(RMul(Num(2), K["1ss"]), K["1cc"]) : K \in {K0}})


(***************************************************************************)
(* Parameter tables and the external collaborators.                        *)
(* A table maps parameter names to numbers.  Tables are objects: heap maps *)
(* an object name to its current contents, so that a copy and an alias     *)
(* differ.  The collaborators (running mass, form factors, Wilson          *)
(* coefficients, CKM, couplings) are not part of this file: what they      *)
(* return is drawn from the sets below, and a collaborator may write to    *)
(* the table object it is handed.                                          *)
(***************************************************************************)
NoVal == "NoVal"

Objects == {"caller", "copy"}
ExtKey == "ext_cache"

\* what a collaborator leaves in the table it is handed
ext_effect(heap, obj, ext) ==
    IF ext.writes THEN [heap EXCEPT ![obj] = (ExtKey :> Num(1)) @@ heap[obj]] ELSE heap

\* par_dict.copy(), line 104: a new object with the same items
dict_alias(heap, obj) == [obj |-> obj, heap |-> heap]
dict_copy(heap, obj) == [obj |-> "copy", heap |-> [heap EXCEPT !["copy"] = heap[obj]]]

\* names bound in the module's namespace when its functions run: the imports
\* of lines 3-7 and the definitions of lines 10-156
ModuleNames == {"flavio", "sqrt", "pi", "lambda_K", "beta_l", "meson_quark", "meson_ff",
                "Observable", "Prediction", "AuxiliaryQuantity", "warnings",
                "helicity_amps", "transverity_amps", "angular_coefficients",
                "get_transverity_amps", "get_obs", "dGdq2", "dbrdq2", "dbrdq2_int",
                "dbrdq2_int_func", "dbrdq2_func"}

\* math.pi, rounded to the model's precision
pi == Rat(355, 113)

\* flavio.physics.bdecays.common.lambda_K(a, b, c): the Kaellen function
lambda_K(a, b, c) ==
    RSub(RAdd(RAdd(RMul(a, a), RMul(b, b)), RMul(c, c)),
         RMul(Num(2), RAdd(RAdd(RMul(a, b), RMul(b, c)), RMul(a, c))))

\* x**(1/4.): for x < 0 Python returns the principal complex root
quarter_root(x) ==
    IF RSign(x) >= 0 THEN CReal(sqrt(sqrt(x)))
    ELSE LET r == RMul(sqrt(sqrt(RNeg(x))), sqrt(Rat(1, 2))) IN Cx(r, r)

\* line 119 (mLb > 0)
prefactor_N(GF, xi_t, alphaem, q2, la_K, mLb) ==
    LET num == CMul(CScale(sqrt(q2), CScale(alphaem, CScale(GF, xi_t))), quarter_root(la_K))
        mLb3 == RMul(RMul(mLb, mLb), mLb)
        pi5 == RMul(RMul(RMul(RMul(pi, pi), pi), pi), pi)
        den == sqrt(RMul(RMul(Num(6), mLb3), pi5))
    IN  CDivR(CDivR(num, den), Num(32))

(***************************************************************************)
(* Stage 4: the orchestration, lines 103-144.  Each operator returns the   *)
(* outcome of one call: status ("returned" or the exception raised), the   *)
(* value returned, the heap after the call, and what the call did on the   *)
(* way (whether helicity_amps was invoked and with which arguments, which  *)
(* table object the pipeline read).                                        *)
(***************************************************************************)
\* kind says what value holds: "number", "amplitudes", "nonfinite" (inf or nan,
\* what numpy arithmetic yields after a division by zero) or "none" (raised)
Outcome(status, kind, value, heap, ha, read) ==
    [status |-> status, kind |-> kind, value |-> value, heap |-> heap, ha |-> ha, read |-> read]
NoHa == [called |-> FALSE]
NoRead == <<>>

get_transverity_amps(q2, wc_obj, par_dict, lep, cp_conjugate, heap, ext) ==
    LET c == dict_copy(heap, par_dict)
        par == c.obj
    IN
    IF cp_conjugate /\ "conjugate_par" \notin ModuleNames
    THEN Outcome("NameError", "none", NoVal, c.heap, NoHa, NoRead)
    ELSE
    LET read == IF cp_conjugate THEN <<par, "conjugated">> ELSE <<par, "plain">>
        mLb == c.heap[par]["m_Lambdab"]
        mL == c.heap[par]["m_Lambda"]
        mb == ext.mb
        \* get_mb, the form-factor prediction, wctot_dict and get_wceff are handed par
        h1 == ext_effect(c.heap, par, ext)
        ff == ext.ff
        wc_eff == ext.wc_eff
        haArgs == [called |-> TRUE, q2 |-> q2, sp |-> sp_of(q2, mLb, mL), sm |-> sm_of(q2, mLb, mL)]
        raised == helicity_amps_raises(q2, mLb, mL)
    IN
    IF raised = "ZeroDivisionError" /\ ext.numpy_ff
    THEN Outcome("returned", "nonfinite", NoVal, h1, haArgs, read)
    ELSE IF raised # "none"
    THEN Outcome(raised, "none", NoVal, h1, haArgs, read)
    ELSE
    LET xi_t == ext.xi_t
        alphaem == ext.alphaem
        la_K == lambda_K(RMul(mLb, mLb), RMul(mL, mL), q2)
    IN  The({Outcome("returned", "amplitudes",
                     transverity_amps(ha, q2, mLb, mL, mb, Num(0), wc_eff, N),
                     h1, haArgs, read)
             : ha \in {helicity_amps(q2, mLb, mL, ff)},
               N \in {prefactor_N(h1[par]["GF"], xi_t, alphaem, q2, la_K, mLb)}})

\* a slip: the upper end of the window taken at (mLb + mL)^2
outside_window_upper_sum(q2, ml, mLb, mL) ==
    RLess(q2, RMul(Num(4), RMul(ml, ml))) \/ RLess(RMul(RAdd(mLb, mL), RAdd(mLb, mL)), q2)
\* line 127
outside_window(q2, ml, mLb, mL) ==
    RLess(q2, RMul(Num(4), RMul(ml, ml))) \/ RLess(RMul(RSub(mLb, mL), RSub(mLb, mL)), q2)

\* line 132: function(K), function being one of the module's functionals of K
call_function(function, K) == CASE function = "dGdq2" -> dGdq2(K)

\* lines 123-132
get_obs(function, q2, wc_obj, par, lep, heap, ext) ==
    LET ml == heap[par]["m_" \o lep]
        mLb == heap[par]["m_Lambdab"]
        mL == heap[par]["m_Lambda"]
    IN
    IF outside_window(q2, ml, mLb, mL)
    THEN Outcome("returned", "number", FZero, heap, NoHa, NoRead)
    ELSE
    The({IF t.kind # "amplitudes" THEN t
         ELSE LET alpha == t.heap[par]["Lambda->ppi alpha_-"]
                  K == angular_coefficients(t.value, alpha)
              IN  [t EXCEPT !.kind = "number", !.value = call_function(function, K)]
         : t \in {get_transverity_amps(q2, wc_obj, par, lep, FALSE, heap, ext)}})

\* lines 137-139
dbrdq2(q2, wc_obj, par, lep, heap, ext) ==
    LET tauLb == heap[par]["tau_Lambdab"] IN
    The({IF o.kind # "number" THEN o
         ELSE [o EXCEPT !.value = RMul(tauLb, o.value)]
         : o \in {get_obs("dGdq2", q2, wc_obj, par, lep, heap, ext)}})

\* flavio.math.integrate.nintegrate(f, a, b): one-point (midpoint) quadrature;
\* f is obs of lines 142-143, evaluated at the sample point
nintegrate(a, b, wc_obj, par, lep, heap, ext) ==
    The({IF o.kind # "number" THEN o
         ELSE [o EXCEPT !.value = RMul(RSub(b, a), o.value)]
         : o \in {dbrdq2(RDiv(RAdd(a, b), Num(2)), wc_obj, par, lep, heap, ext)}})

\* lines 141-144
dbrdq2_int(q2min, q2max, wc_obj, par, lep, heap, ext) ==
    The({IF o.status # "returned" THEN o
         ELSE IF RIsZero(RSub(q2max, q2min))
         THEN [o EXCEPT !.status = "ZeroDivisionError", !.kind = "none", !.value = NoVal]
         ELSE IF o.kind # "number" THEN o
         ELSE [o EXCEPT !.value = RDiv(o.value, RSub(q2max, q2min))]
         : o \in {nintegrate(q2min, q2max, wc_obj, par, lep, heap, ext)}})

(***************************************************************************)
(* Stage 5: the closures and the registration loop, lines 148-175.         *)
(***************************************************************************)
\* lines 148-151 and 153-156: the function returned, with the cell it closes over
dbrdq2_int_func(lep) == [code |-> "dbrdq2_int", lep |-> lep]
dbrdq2_func(lep) == [code |-> "dbrdq2", lep |-> lep]

\* the flavor fct evaluates with (lines 150, 155): lep is the enclosing call's
\* argument, not the module-level loop variable l
closure_lep_late(fct, l_now) == l_now
closure_lep(fct, l_now) == fct.lep

\* line 159
tex(lep) == CASE lep = "e" -> "e" [] lep = "mu" -> "\\mu" [] lep = "tau" -> "\\tau"
\* line 161
LoopLeptons == <<"e", "mu">>
\* lines 164 and 171
binned_name(lep) == "<dBR/dq2>(Lambdab->Lambda" \o lep \o lep \o ")"
differential_name(lep) == "dBR/dq2(Lambdab->Lambda" \o lep \o lep \o ")"

(***************************************************************************)
(* Inputs.                                                                 *)
(***************************************************************************)
Table(me, mmu, mtau, mLb, mL, tau, alpha, GF) ==
       ("m_e" :> me) @@ ("m_mu" :> mmu) @@ ("m_tau" :> mtau)
    @@ ("m_Lambdab" :> mLb) @@ ("m_Lambda" :> mL) @@ ("tau_Lambdab" :> tau)
    @@ ("Lambda->ppi alpha_-" :> alpha) @@ ("GF" :> GF)

\* window of T1: e [0, 25], mu [4, 25], tau empty; of T2: e [1, 9], mu [4, 9], tau empty
ParTables == {Table(Num(0), Num(1), Num(3), Num(6), Num(1), Num(2), Rat(1, 2), Num(1)),
              Table(Rat(1, 2), Num(1), Num(2), Num(5), Num(2), Num(3), Rat(-2, 3), Num(2))}
Leptons == {"e", "mu", "tau"}
Q2Vals == {Num(-1), Num(0), Num(1), Num(3), Num(4), Num(9), Num(10), Num(16), Num(25), Num(26)}
BinEdges == {Num(0), Num(4), Num(10), Num(26)}

Wc(v, a, vp, ap, c7, c7p) ==
    ("v" :> v) @@ ("a" :> a) @@ ("vp" :> vp) @@ ("ap" :> ap) @@ ("7" :> c7) @@ ("7p" :> c7p)
WcSets == {Wc(CInt(4, 0), CInt(0, 0), CInt(0, 0), CInt(0, 0), Cx(Rat(-1, 2), Num(0)), CInt(0, 0)),
           Wc(CInt(3, 1), CInt(0, 0), CInt(1, -2), CInt(0, 0), Cx(Rat(-1, 2), Rat(1, 3)), CInt(0, 1)),
           Wc(CInt(4, 0), CInt(-4, 0), CInt(0, 0), CInt(0, 0), Cx(Rat(-1, 2), Num(0)), CInt(0, 0)),
           Wc(CInt(3, 1), CInt(-4, 1), CInt(1, -2), CInt(1, 1), Cx(Rat(-1, 2), Rat(1, 3)), CInt(0, 1))}
FFSets == [FFKeys -> {Num(-1), Num(2)}]
FFSome == {[k \in FFKeys |-> Num(1)],
           [k \in FFKeys |-> IF k \in {"fV0", "fVperp", "fT0"} THEN Num(2) ELSE Num(-1)]}
WcSome == {Wc(CInt(3, 1), CInt(0, 0), CInt(1, -2), CInt(0, 0), Cx(Rat(-1, 2), Rat(1, 3)), CInt(0, 1)),
           Wc(CInt(4, 0), CInt(-4, 0), CInt(0, 0), CInt(0, 0), Cx(Rat(-1, 2), Num(0)), CInt(0, 0))}
Exts == [mb : {Num(4)}, ff : FFSome, numpy_ff : BOOLEAN, wc_eff : WcSome,
         xi_t : {Cx(Rat(-1, 2), Rat(1, 3))}, alphaem : {Rat(1, 2)}, writes : BOOLEAN]

Heap0(table) == [o \in Objects |-> IF o = "caller" THEN table ELSE NoVal]

VARIABLES pc, todo, l, observables, predictions, call, ev
vars == <<pc, todo, l, observables, predictions, call, ev>>

NoCall == [fn |-> "none"]
EvIdle == [fn |-> "none", origin |-> "none", q2 |-> NoVal, mLb |-> NoVal, mL |-> NoVal, ff |-> NoVal, ha |-> NoVal,
           wc |-> NoVal, mqh |-> NoVal, N |-> NoVal, ta |-> NoVal, alpha |-> NoVal,
           K |-> NoVal, rate |-> NoVal]

Init ==
    /\ pc = "loading"
    /\ todo = LoopLeptons
    /\ l = NoVal
    /\ observables = <<>>
    /\ predictions = <<>>
    /\ call = NoCall
    /\ ev = EvIdle

\* one iteration of the loop of lines 161-175
LoadLepton ==
    /\ pc = "loading"
    /\ todo # <<>>
    /\ l' = Head(todo)
    /\ todo' = Tail(todo)
    /\ observables' = (differential_name(l') :> [arguments |-> <<"q2">>, tex |-> tex(l')])
                   @@ (binned_name(l') :> [arguments |-> <<"q2min", "q2max">>, tex |-> tex(l')])
                   @@ observables
    /\ predictions' = (differential_name(l') :> dbrdq2_func(l'))
                   @@ (binned_name(l') :> dbrdq2_int_func(l'))
                   @@ predictions
    /\ UNCHANGED <<pc, call, ev>>

\* the loop is exhausted: the module is loaded
LoadDone ==
    /\ pc = "loading"
    /\ todo = <<>>
    /\ pc' = "idle"
    /\ UNCHANGED <<todo, l, observables, predictions, call, ev>>

CallRecord(fn, via, lep, q2, q2max, cp, table, outcome) ==
    The({[fn |-> fn, via |-> via, lep |-> lep, q2 |-> q2, q2max |-> q2max, cp |-> cp,
          before |-> table, after |-> o.heap["caller"], copy |-> o.heap["copy"],
          status |-> o.status, kind |-> o.kind, value |-> o.value, ha |-> o.ha, read |-> o.read]
         : o \in {outcome}})

CallGetObs ==
    /\ pc = "idle"
    /\ pc' = "called"
    /\ \E table \in ParTables, lep \in Leptons, q2 \in Q2Vals, ext \in Exts :
          call' = CallRecord("get_obs", "direct", lep, q2, NoVal, FALSE, table,
                             get_obs("dGdq2", q2, "wc_obj", "caller", lep, Heap0(table), ext))
    /\ UNCHANGED <<todo, l, observables, predictions, ev>>

CallDbrdq2 ==
    /\ pc = "idle"
    /\ pc' = "called"
    /\ \E table \in ParTables, lep \in Leptons, q2 \in Q2Vals, ext \in Exts :
          call' = CallRecord("dbrdq2", "direct", lep, q2, NoVal, FALSE, table,
                             dbrdq2(q2, "wc_obj", "caller", lep, Heap0(table), ext))
    /\ UNCHANGED <<todo, l, observables, predictions, ev>>

CallGetTransversityAmps ==
    /\ pc = "idle"
    /\ pc' = "called"
    /\ \E table \in ParTables, lep \in Leptons, q2 \in Q2Vals, cp \in BOOLEAN, ext \in Exts :
          call' = CallRecord("get_transverity_amps", "direct", lep, q2, NoVal, cp, table,
                             get_transverity_amps(q2, "wc_obj", "caller", lep, cp, Heap0(table), ext))
    /\ UNCHANGED <<todo, l, observables, predictions, ev>>

\* a registered differential prediction is evaluated: fct(wc_obj, par, q2)
CallDifferentialPrediction ==
    /\ pc = "idle"
    /\ pc' = "called"
    /\ \E name \in DOMAIN predictions, table \in ParTables, q2 \in Q2Vals, ext \in Exts :
          /\ predictions[name].code = "dbrdq2"
          /\ LET lep == closure_lep(predictions[name], l) IN
             call' = CallRecord("dbrdq2", name, lep, q2, NoVal, FALSE, table,
                                dbrdq2(q2, "wc_obj", "caller", lep, Heap0(table), ext))
    /\ UNCHANGED <<todo, l, observables, predictions, ev>>

\* a registered binned prediction is evaluated: fct(wc_obj, par, q2min, q2max)
CallBinnedPrediction ==
    /\ pc = "idle"
    /\ pc' = "called"
    /\ \E name \in DOMAIN predictions, table \in ParTables, q2min \in BinEdges,
          q2max \in BinEdges, ext \in Exts :
          /\ predictions[name].code = "dbrdq2_int"
          /\ LET lep == closure_lep(predictions[name], l) IN
             call' = CallRecord("dbrdq2_int", name, lep, q2min, q2max, FALSE, table,
                                dbrdq2_int(q2min, q2max, "wc_obj", "caller", lep, Heap0(table), ext))
    /\ UNCHANGED <<todo, l, observables, predictions, ev>>

\* the caller has the result; the next call starts from the loaded module
Return ==
    /\ pc = "called"
    /\ pc' = "idle"
    /\ call' = NoCall
    /\ UNCHANGED <<todo, l, observables, predictions, ev>>

Next ==
    \/ LoadLepton
    \/ LoadDone
    \/ CallGetObs
    \/ CallDbrdq2
    \/ CallGetTransversityAmps
    \/ CallDifferentialPrediction
    \/ CallBinnedPrediction
    \/ Return

Spec == Init /\ [][Next]_vars

(***************************************************************************)
(* The pure stages on their own, applied to inputs drawn from bounded sets *)
(* (specification SpecAmps).                                               *)
(***************************************************************************)
MaxNonZero == 2

\* kinematic points <<q2, mLb, mL>> with q2 > 0 and sm >= 0
Kinematics == {<<Num(4), Num(6), Num(1)>>, <<Num(25), Num(6), Num(1)>>,
               <<Num(9), Num(5), Num(2)>>, <<Num(3), Num(5), Num(2)>>}
AmpVals == {CInt(0, 0), CInt(1, 0), CInt(0, 1), CInt(-1, 2), Cx(Rat(2, 3), Num(-1))}
ZeroTa == [k \in TaKeys |-> CInt(0, 0)]
RECURSIVE TaWith(_)
TaWith(n) ==
    IF n = 0 THEN {ZeroTa}
    ELSE {[ta EXCEPT ![k] = v] : ta \in TaWith(n - 1), k \in TaKeys, v \in AmpVals}
\* the amplitude sets with at most MaxNonZero nonzero entries
TaInputs == TaWith(MaxNonZero)
NVals == {Cx(Rat(1, 2), Num(0)), Cx(Rat(1, 3), Rat(-1, 5))}
MqhVals == {Num(4)}
AlphaVals == {Num(0), Rat(1, 2), Rat(-2, 3)}

EvalHelicity ==
    /\ ev.fn = "none"
    /\ \E kin \in Kinematics, ff \in FFSets :
          ev' = [EvIdle EXCEPT !.fn = "helicity_amps", !.q2 = kin[1], !.mLb = kin[2],
                               !.mL = kin[3], !.ff = ff,
                               !.ha = helicity_amps(kin[1], kin[2], kin[3], ff)]
    /\ UNCHANGED <<pc, todo, l, observables, predictions, call>>

EvalTransversity ==
    /\ ev.fn = "helicity_amps"
    /\ \E wc \in WcSets, mqh \in MqhVals, N \in NVals :
          ev' = [ev EXCEPT !.fn = "transverity_amps", !.origin = "transverity_amps", !.wc = wc, !.mqh = mqh, !.N = N,
                           !.ta = transverity_amps(ev.ha, ev.q2, ev.mLb, ev.mL, mqh, Num(0), wc, N)]
    /\ UNCHANGED <<pc, todo, l, observables, predictions, call>>

\* a transversity amplitude set given directly
InputTa ==
    /\ ev.fn = "none"
    /\ \E ta \in TaInputs : ev' = [EvIdle EXCEPT !.fn = "ta_input", !.origin = "ta_input", !.ta = ta]
    /\ UNCHANGED <<pc, todo, l, observables, predictions, call>>

EvalAngular ==
    /\ ev.fn \in {"transverity_amps", "ta_input"}
    /\ \E alpha \in AlphaVals :
          ev' = [ev EXCEPT !.fn = "angular_coefficients", !.alpha = alpha,
                           !.K = angular_coefficients(ev.ta, alpha)]
    /\ UNCHANGED <<pc, todo, l, observables, predictions, call>>

EvaldGdq2 ==
    /\ ev.fn = "angular_coefficients"
    /\ ev' = [ev EXCEPT !.fn = "dGdq2", !.rate = dGdq2(ev.K)]
    /\ UNCHANGED <<pc, todo, l, observables, predictions, call>>

NextAmps ==
    \/ EvalHelicity
    \/ EvalTransversity
    \/ InputTa
    \/ EvalAngular
    \/ EvaldGdq2

SpecAmps == Init /\ [][NextAmps]_vars

(***************************************************************************)
(* The claims.                                                             *)
(***************************************************************************)
Loaded == pc \in {"idle", "called"}
IsCall == call.fn # "none"
Positive(x) == RSign(x) > 0
NonNegative(x) == RSign(x) >= 0

\* the lepton mass and the window bounds of the call in call, from its table
CallMl == call.before["m_" \o call.lep]
CallLower == RMul(Num(4), RMul(CallMl, CallMl))
CallUpper == RMul(RSub(call.before["m_Lambdab"], call.before["m_Lambda"]),
                  RSub(call.before["m_Lambdab"], call.before["m_Lambda"]))
CallOutside == RSign(RSub(call.q2, CallLower)) < 0 \/ RSign(RSub(call.q2, CallUpper)) > 0

\* C1: a call of get_obs or dbrdq2 at a point with q2 < 4*m_lepton^2 or
\* q2 > (m_Lambdab - m_Lambda)^2 returns (raises nothing) and returns exactly 0,
\* for every table, flavor and q2.
C1_OutsideWindowIsZero ==
    (call.fn \in {"get_obs", "dbrdq2"} /\ CallOutside)
        => (call.status = "returned" /\ call.kind = "number" /\ call.value = FZero)
C1_Witness ==
    /\ call.fn = "dbrdq2" /\ call.lep = "tau" /\ Positive(call.q2) /\ CallOutside
    /\ call.status = "returned" /\ call.kind = "number" /\ call.value = FZero

\* C2: for every table with non-negative masses, whenever helicity_amps is reached
\* through get_obs its arguments have q2 > 0, sp >= 0 and sm >= 0.
ThroughGetObs == call.fn \in {"get_obs", "dbrdq2", "dbrdq2_int"}
C2_HelicityArgumentsValid ==
    (ThroughGetObs /\ call.ha.called)
        => (Positive(call.ha.q2) /\ NonNegative(call.ha.sp) /\ NonNegative(call.ha.sm))

\* C3: a call of get_transverity_amps with the CP-conjugation flag set completes,
\* returns the transversity amplitudes, and its pipeline read the conjugated table.
C3_ConjugatedPipelineCompletes ==
    (call.fn = "get_transverity_amps" /\ call.cp)
        => (call.status = "returned" /\ call.kind = "amplitudes"
            /\ call.read = <<"copy", "conjugated">>)

\* C8: once the registration loop has finished, exactly the binned and the
\* differential prediction of e and of mu are registered (none for tau), the
\* binned ones taking q2min, q2max and the differential ones q2, and a registered
\* prediction, whenever called, evaluates with the flavor of its own iteration.
C8_RegisteredPerFlavor ==
    Loaded =>
        /\ DOMAIN predictions = {binned_name("e"), differential_name("e"),
                                 binned_name("mu"), differential_name("mu")}
        /\ Cardinality(DOMAIN predictions) = 4
        /\ DOMAIN observables = DOMAIN predictions
        /\ \A lep \in {"e", "mu"} :
              /\ observables[binned_name(lep)].arguments = <<"q2min", "q2max">>
              /\ observables[differential_name(lep)].arguments = <<"q2">>
              /\ predictions[binned_name(lep)].code = "dbrdq2_int"
              /\ predictions[differential_name(lep)].code = "dbrdq2"
              /\ (IsCall /\ call.via \in {binned_name(lep), differential_name(lep)})
                    => call.lep = lep
C8_Witness ==
    /\ Loaded /\ l = "mu" /\ IsCall /\ call.via = differential_name("e") /\ call.lep = "e"
    /\ call.status = "returned" /\ call.kind = "number" /\ Positive(call.value)

\* C9: a call of get_obs, dbrdq2 or get_transverity_amps, with the flag set or
\* not, inside or outside the window, returning or raising, leaves the caller's
\* parameter table as it was.
C9_CallerTableUnchanged ==
    (IsCall /\ call.fn \in {"get_obs", "dbrdq2", "get_transverity_amps"})
        => call.after = call.before
\* a collaborator wrote to the table it was handed, and the call went on to return
C9_Witness ==
    /\ call.fn = "get_obs" /\ call.status = "returned" /\ call.ha.called
    /\ ExtKey \in DOMAIN call.copy /\ call.after = call.before

HasHa == ev.fn \in {"helicity_amps", "transverity_amps"}
HasK == ev.fn \in {"angular_coefficients", "dGdq2"}
FromWc == HasK /\ ev.origin = "transverity_amps"
AlphaDependent == {"2ss", "2cc", "2c", "3sc", "3s", "4sc", "4s"}

\* C4: the result of helicity_amps has exactly 16 entries; the V and T entries
\* are unchanged under helicity flip, the A and T5 entries change sign.
C4_HelicityFlip ==
    HasHa =>
        /\ DOMAIN ev.ha = HKeys /\ Cardinality(DOMAIN ev.ha) = 16
        /\ ev.ha["0V--"] = ev.ha["0V++"] /\ ev.ha["+V+-"] = ev.ha["+V-+"]
        /\ ev.ha["0T--"] = ev.ha["0T++"] /\ ev.ha["+T+-"] = ev.ha["+T-+"]
        /\ ev.ha["0A--"] = RNeg(ev.ha["0A++"]) /\ ev.ha["+A+-"] = RNeg(ev.ha["+A-+"])
        /\ ev.ha["0T5--"] = RNeg(ev.ha["0T5++"]) /\ ev.ha["+T5+-"] = RNeg(ev.ha["+T5-+"])
C4_Witness ==
    /\ ev.fn = "helicity_amps" /\ Positive(ev.ha["0A++"]) /\ RSign(ev.ha["0A--"]) < 0
    /\ RSign(ev.ha["0V++"]) < 0 /\ RSign(ev.ha["0V--"]) < 0

\* C5: angular_coefficients(ta, 0) has 2ss, 2cc, 2c, 3sc, 3s, 4sc, 4s equal to 0,
\* and 1ss, 1cc, 1c of angular_coefficients(ta, alpha) equal those at alpha = 0.
C5_AlphaZero ==
    HasK =>
        LET K0 == angular_coefficients(ev.ta, Num(0)) IN
        /\ \A k \in AlphaDependent : K0[k] = FZero
        /\ \A k \in {"1ss", "1cc", "1c"} : ev.K[k] = K0[k]
C5_Witness ==
    /\ ev.fn = "angular_coefficients" /\ ~RIsZero(ev.alpha)
    /\ \A k \in AlphaDependent : ~RIsZero(ev.K[k])
    /\ ~RIsZero(ev.K["1c"])

\* C6: K[1ss] >= 0 and K[1cc] >= 0 for every amplitude set and every alpha, and
\* the rate dGdq2(K) = 2*K[1ss] + K[1cc] is >= 0.
C6_RateNonNegative ==
    HasK =>
        /\ NonNegative(ev.K["1ss"]) /\ NonNegative(ev.K["1cc"])
        /\ (ev.fn = "dGdq2" =>
               /\ NonNegative(ev.rate)
               /\ ev.rate = RAdd(RMul(Num(2), ev.K["1ss"]), ev.K["1cc"]))
C6_Witness ==
    /\ ev.fn = "dGdq2" /\ ev.origin = "ta_input" /\ Positive(ev.rate)
    /\ RIsZero(ev.K["1cc"]) /\ ~CIsZero(ev.ta[a0L])

\* C7 as stated: the mapping returned by angular_coefficients has exactly 9 keys.
C7_NineKeys == HasK => Cardinality(DOMAIN ev.K) = 9
\* C7, amended: it has exactly the 10 keys 1ss, 1cc, 1c, 2ss, 2cc, 2c, 3sc, 3s,
\* 4sc, 4s, for every amplitude set and every alpha.
C7_TenKeys ==
    HasK =>
        /\ DOMAIN ev.K = {"1ss", "1cc", "1c", "2ss", "2cc", "2c", "3sc", "3s", "4sc", "4s"}
        /\ Cardinality(DOMAIN ev.K) = 10
C7_Witness == ev.fn = "angular_coefficients" /\ ev.origin = "transverity_amps" /\ ~RIsZero(ev.K["4s"])

LeftEqualsRight == \A t \in {"perp1", "para1", "perp0", "para0"} : ev.ta[<<t, "L">>] = ev.ta[<<t, "R">>]
NoAxial == FromWc /\ CIsZero(ev.wc["a"]) /\ CIsZero(ev.wc["ap"])

\* C10 as stated: with wc[a] = wc[ap] = 0 the left and right amplitudes are equal
\* and K[1c] = K[2c] = K[3s] = K[4s] = 0 for every alpha.
C10_Original ==
    NoAxial =>
        /\ LeftEqualsRight
        /\ RIsZero(ev.K["1c"]) /\ RIsZero(ev.K["2c"])
        /\ RIsZero(ev.K["3s"]) /\ RIsZero(ev.K["4s"])
\* C10, amended: with wc[a] = wc[ap] = 0 the left and right amplitudes are equal
\* and K[1c] = K[2c] = 0 for every alpha; K[3s] and K[4s] are the rounding residue
\* of the sum X - Y - X + Y, exactly 0 only when alpha = 0.
C10_ChiralitySymmetric ==
    NoAxial =>
        /\ LeftEqualsRight
        /\ RIsZero(ev.K["1c"]) /\ RIsZero(ev.K["2c"])
        /\ (RIsZero(ev.alpha) => (RIsZero(ev.K["3s"]) /\ RIsZero(ev.K["4s"])))
C10_Witness ==
    /\ NoAxial /\ ~RIsZero(ev.alpha) /\ ~CIsZero(ev.wc["vp"])
    /\ ~RIsZero(ev.K["2cc"]) /\ ~RIsZero(ev.K["3sc"])
====
